---- MODULE Spec2Model ----
(***************************************************************************)
(* Request / pagination orchestration of tmai-langchain-tools:             *)
(* BaseEndpoint._chunk_date_range, BaseEndpoint._request and               *)
(* BaseEndpoint._paginated_request (src/endpoints/base_endpoint.py),        *)
(* TMBaseTool._handle_error (src/tools/base_tool.py) and                    *)
(* DailyOHLCVTool._run (src/tools/daily_ohlcv.py).                          *)
(*                                                                         *)
(* Python values are encoded as follows.                                   *)
(*   str | None (a date argument): a record [tag, y, m, d, pad]            *)
(*       tag = "none"  : None                                              *)
(*       tag = "empty" : ""                                                *)
(*       tag = "bad"   : a string strptime rejects by shape ("bad-date")   *)
(*       tag = "ymd"   : "<y>-<m>-<d>", four-digit year; pad tells whether *)
(*                       month and day are written with two digits         *)
(*   dict: a function whose DOMAIN is the set of keys present              *)
(*   JSON body / result: [isdict, dict, list]                              *)
(***************************************************************************)
EXTENDS Integers, Sequences, FiniteSets, TLC

VARIABLES
    chunker,        \* one activation of _chunk_date_range (its locals)
    pc,             \* position of the _paginated_request activation
    args,           \* its arguments: method, endpoint, params, max_days, custom_limit
    params,         \* the params mapping of the activation (the caller's object when given)
    limit,          \* local `limit`
    date_chunks,    \* local `date_chunks`
    idx,            \* number of loop iterations completed
    all_data,       \* local `all_data`
    combined_meta,  \* local `combined_meta`
    sent,           \* the calls made to _request, in order: [method, endpoint, params]
    wire,           \* the HTTP requests handed to the requests library, in order
    outstanding,    \* number of HTTP requests awaiting their response
    pbar,           \* the tqdm bar: [total, n]
    received,       \* the bodies _request has returned, in order
    outcome,        \* how the activation ended: [kind, value, exc]
    replies,        \* how the HTTP exchanges of wire ended, in order
    req,            \* one direct activation of _request
    tool,           \* one activation of DailyOHLCVTool._run
    acts,           \* two concurrent activations of _paginated_request
    client,         \* the TokenMetricsClient and its BaseEndpoint, as constructed
    urls,           \* the URLs of the HTTP requests of wire, in order
    loop            \* one activation of _chunk_date_range, statement by statement

vars == <<chunker, pc, args, params, limit, date_chunks, idx, all_data,
          combined_meta, sent, wire, outstanding, pbar, received, outcome,
          replies, req, tool, acts, client, urls, loop>>

\* the locals of the _paginated_request activation
aggVars == <<pc, args, params, limit, date_chunks, idx, all_data,
             combined_meta, sent, pbar, received, outcome>>

pagVars == <<aggVars, wire, outstanding, replies>>

-----------------------------------------------------------------------------
(* Bounds of the model *)

\* max_days is drawn from 1..MaxDays (and the default DefaultMaxDays)
MaxDays == 3
\* the aggregator's date ranges span 0..MaxSpan days
MaxSpan == 3

\* def _chunk_date_range(self, startDate, endDate, max_days=29)
DefaultMaxDays == 29

-----------------------------------------------------------------------------
(* Date strings and the calendar (datetime.strptime / strftime / timedelta) *)

NoneStr == [tag |-> "none", y |-> 0, m |-> 0, d |-> 0, pad |-> TRUE]
EmptyStr == [tag |-> "empty", y |-> 0, m |-> 0, d |-> 0, pad |-> TRUE]
BadStr == [tag |-> "bad", y |-> 0, m |-> 0, d |-> 0, pad |-> TRUE]

\* a string that is no date and not empty, such as the symbol "BTC"
Btc == [tag |-> "text", y |-> 0, m |-> 0, d |-> 0, pad |-> TRUE]

Ymd(y, m, d, pad) == [tag |-> "ymd", y |-> y, m |-> m, d |-> d, pad |-> pad]

\* Python truthiness of a str | None value
Truthy(s) == s.tag \notin {"none", "empty"}

IsLeap(y) == y % 4 = 0 /\ (y % 100 # 0 \/ y % 400 = 0)

DaysInMonthTable == <<31, 28, 31, 30, 31, 30, 31, 31, 30, 31, 30, 31>>

DaysBeforeMonthTable == <<0, 31, 59, 90, 120, 151, 181, 212, 243, 273, 304, 334>>

DaysInMonth(y, m) == IF m = 2 /\ IsLeap(y) THEN 29 ELSE DaysInMonthTable[m]

DaysBeforeYear(y) ==
    LET y1 == y - 1
    IN  y1 * 365 + (y1 \div 4) - (y1 \div 100) + (y1 \div 400)

DaysBeforeMonth(y, m) ==
    DaysBeforeMonthTable[m] + (IF m > 2 /\ IsLeap(y) THEN 1 ELSE 0)

\* proleptic Gregorian ordinal of a calendar date
ToOrdinal(y, m, d) == DaysBeforeYear(y) + DaysBeforeMonth(y, m) + d

\* the calendar date of an ordinal, as <<year, month, day>>
FromOrdinal(ord) ==
    LET n0 == ord - 1
        n400 == n0 \div 146097
        r400 == n0 % 146097
        n100 == r400 \div 36524
        r100 == r400 % 36524
        n4 == r100 \div 1461
        r4 == r100 % 1461
        n1 == r4 \div 365
        n == r4 % 365
        year == n400 * 400 + 1 + n100 * 100 + n4 * 4 + n1
        leapyear == n1 = 3 /\ (n4 # 24 \/ n100 = 3)
        month0 == (n + 50) \div 32
        prec0 == DaysBeforeMonthTable[month0]
                    + (IF month0 > 2 /\ leapyear THEN 1 ELSE 0)
        month == IF prec0 > n THEN month0 - 1 ELSE month0
        prec == IF prec0 > n
                THEN prec0 - (DaysInMonthTable[month]
                                + (IF month = 2 /\ leapyear THEN 1 ELSE 0))
                ELSE prec0
    IN  IF n1 = 4 \/ n100 = 4
        THEN <<year - 1, 12, 31>>
        ELSE <<year, month, n - prec + 1>>

\* datetime.strptime(s, "%Y-%m-%d") succeeds
Parseable(s) ==
    /\ s.tag = "ymd"
    /\ s.m \in 1..12
    /\ s.d >= 1
    /\ s.d <= DaysInMonth(s.y, s.m)

\* the datetime strptime returns (as an ordinal; the time of day is 00:00)
Strptime(s) == ToOrdinal(s.y, s.m, s.d)

\* dt.strftime("%Y-%m-%d"): month and day are always written with two digits
Strftime(ord) ==
    LET t == FromOrdinal(ord) IN Ymd(t[1], t[2], t[3], TRUE)

Min(a, b) == IF a <= b THEN a ELSE b

-----------------------------------------------------------------------------
(* BaseEndpoint._chunk_date_range *)

\* chunk_end = min(chunk_start + timedelta(days=max_days), end), without the min
ChunkEndNoMin(chunk_start, max_days, end) == chunk_start + max_days

\* a chunk end that halves what remains of the range instead of capping the
\* window at max_days
ChunkEndHalfway(chunk_start, max_days, end) ==
    chunk_start + (end - chunk_start + 1) \div 2

\* chunk_end = min(chunk_start + datetime.timedelta(days=max_days), end)
ChunkEnd(chunk_start, max_days, end) == Min(chunk_start + max_days, end)

\* the while loop, with the next chunk starting the day after chunk_end
RECURSIVE ChunkLoopNextDay(_, _, _)
ChunkLoopNextDay(chunk_start, end, max_days) ==
    IF chunk_start < end
    THEN LET chunk_end == ChunkEnd(chunk_start, max_days, end)
         IN  <<  <<Strftime(chunk_start), Strftime(chunk_end)>>  >>
                \o ChunkLoopNextDay(chunk_end + 1, end, max_days)
    ELSE <<>>

\* a loop that closes the list with the window (end, end)
RECURSIVE ChunkLoopTrailing(_, _, _)
ChunkLoopTrailing(chunk_start, end, max_days) ==
    IF chunk_start < end
    THEN LET chunk_end == ChunkEnd(chunk_start, max_days, end)
         IN  <<  <<Strftime(chunk_start), Strftime(chunk_end)>>  >>
                \o ChunkLoopTrailing(chunk_end, end, max_days)
    ELSE <<  <<Strftime(end), Strftime(end)>>  >>

\* the while loop: the windows appended from chunk_start on
RECURSIVE ChunkLoop(_, _, _)
ChunkLoop(chunk_start, end, max_days) ==
    IF chunk_start < end
    THEN LET chunk_end == ChunkEnd(chunk_start, max_days, end)
         IN  <<  <<Strftime(chunk_start), Strftime(chunk_end)>>  >>
                \o ChunkLoop(chunk_end, end, max_days)
    ELSE <<>>

\* the range check, with < in place of <=
WithinLimitsStrict(start, end, max_days) == end - start < max_days

\* if (end - start).days <= max_days
WithinLimits(start, end, max_days) == end - start <= max_days

\* the try block: both strptime calls succeed
BothParse(startDate, endDate) == Parseable(startDate) /\ Parseable(endDate)

\* a chunker that returns no window where the code passes the pair through
ChunkDateRangeEmptyOnError(startDate, endDate, max_days) ==
    IF ~Truthy(startDate) \/ ~Truthy(endDate)
    THEN <<>>
    ELSE IF ~BothParse(startDate, endDate)
    THEN <<>>
    ELSE LET start == Strptime(startDate)
             end == Strptime(endDate)
         IN  IF WithinLimits(start, end, max_days)
             THEN << <<startDate, endDate>> >>
             ELSE ChunkLoop(start, end, max_days)

\* the list of (chunk_start_date, chunk_end_date) tuples returned
ChunkDateRange(startDate, endDate, max_days) ==
    IF ~Truthy(startDate) \/ ~Truthy(endDate)
    THEN << <<startDate, endDate>> >>
    ELSE IF ~BothParse(startDate, endDate)
    THEN << <<startDate, endDate>> >>
    ELSE LET start == Strptime(startDate)
             end == Strptime(endDate)
         IN  IF WithinLimits(start, end, max_days)
             THEN << <<startDate, endDate>> >>
             ELSE ChunkLoop(start, end, max_days)

\* calendar dates (valid and invalid) the chunker is exercised on
CalendarDays ==
    { <<2023, 12, 30>>, <<2023, 12, 31>>, <<2024, 1, 1>>, <<2024, 1, 2>>,
      <<2024, 2, 28>>, <<2024, 2, 29>>, <<2024, 3, 1>>, <<2024, 3, 2>>,
      <<2024, 2, 30>>, <<2023, 2, 29>>, <<2024, 13, 1>> }

\* a string has an unpadded spelling only if its month or day is below 10
DateStrings ==
    {NoneStr, EmptyStr, BadStr}
        \cup { Ymd(t[1], t[2], t[3], TRUE) : t \in CalendarDays }
        \cup { Ymd(t[1], t[2], t[3], FALSE) :
                 t \in { u \in CalendarDays : u[2] < 10 \/ u[3] < 10 } }

MaxDaysChoices == (1..MaxDays) \cup {DefaultMaxDays}

ChunkerIdle ==
    [pc |-> "idle", startDate |-> NoneStr, endDate |-> NoneStr,
     max_days |-> DefaultMaxDays, result |-> <<>>]

\* a direct call of _chunk_date_range runs to its return
ChunkCall ==
    /\ chunker.pc = "called"
    /\ chunker' = [chunker EXCEPT
                     !.pc = "returned",
                     !.result = ChunkDateRange(chunker.startDate, chunker.endDate,
                                               chunker.max_days)]
    /\ UNCHANGED <<pagVars, req, tool, acts, client, urls, loop>>

\* a loop whose start never moves
AdvanceStuck(chunk_start, max_days, end) == chunk_start

\* chunk_end = min(chunk_start + timedelta(days=max_days), end); chunk_start = chunk_end
Advance(chunk_start, max_days, end) == ChunkEnd(chunk_start, max_days, end)

\* while chunk_start < end
LoopContinues(chunk_start, end) == chunk_start < end

LoopIdle ==
    [pc |-> "idle", startDate |-> NoneStr, endDate |-> NoneStr, start |-> 0,
     end |-> 0, max_days |-> DefaultMaxDays, chunk_start |-> 0, windows |-> 0]

\* both dates parse: the range check either returns the pair or enters the loop
LoopEnter ==
    /\ loop.pc = "called"
    /\ LET start == Strptime(loop.startDate)
           end == Strptime(loop.endDate)
       IN  loop' = [loop EXCEPT
                      !.start = start,
                      !.end = end,
                      !.chunk_start = start,
                      !.windows = IF WithinLimits(start, end, loop.max_days)
                                  THEN 1 ELSE 0,
                      !.pc = IF WithinLimits(start, end, loop.max_days)
                             THEN "returned" ELSE "loop"]
    /\ UNCHANGED <<chunker, pagVars, req, tool, acts, client, urls>>

\* one iteration of the while loop; the counter of appended windows stops at
\* the length of the range, which no terminating loop exceeds
LoopIterate ==
    /\ loop.pc = "loop"
    /\ LoopContinues(loop.chunk_start, loop.end)
    /\ loop' = [loop EXCEPT
                  !.chunk_start = Advance(loop.chunk_start, loop.max_days, loop.end),
                  !.windows = Min(loop.windows + 1, loop.end - loop.start)]
    /\ UNCHANGED <<chunker, pagVars, req, tool, acts, client, urls>>

\* the loop condition fails: return chunks
LoopExit ==
    /\ loop.pc = "loop"
    /\ ~LoopContinues(loop.chunk_start, loop.end)
    /\ loop' = [loop EXCEPT !.pc = "returned"]
    /\ UNCHANGED <<chunker, pagVars, req, tool, acts, client, urls>>

-----------------------------------------------------------------------------
(* Python dicts and JSON values *)

EmptyDict == <<>>

\* d[k] = v
Put(d, k, v) == (k :> v) @@ d

\* del d[k]
Del(d, k) == [x \in (DOMAIN d) \ {k} |-> d[x]]

\* d.get(k) for a date key: None when the key is missing
GetDate(d, k) == IF k \in DOMAIN d THEN d[k] ELSE NoneStr

\* d1.update(d2): the entries of d2 win
Update(d1, d2) == d2 @@ d1

\* an optional dict argument: None, or a dict
NoParams == [given |-> FALSE, dict |-> EmptyDict]
Given(d) == [given |-> TRUE, dict |-> d]

\* a JSON object / a JSON array, as returned by response.json()
BodyDict(f) == [isdict |-> TRUE, dict |-> f, list |-> <<>>]
BodyList(l) == [isdict |-> FALSE, dict |-> EmptyDict, list |-> l]

\* an element of a data array: a JSON object (isdict) or a scalar, named by id
Rec(id) == [isdict |-> TRUE, id |-> id]
Scalar(id) == [isdict |-> FALSE, id |-> id]

-----------------------------------------------------------------------------
(* BaseEndpoint._request *)

\* TokenMetricsClient.BASE_URL
BASE_URL == "https://api.tokenmetrics.com/v2"

\* the base_url argument of TokenMetricsClient: None, or a string
NoUrl == [given |-> FALSE, url |-> ""]
GivenUrl(u) == [given |-> TRUE, url |-> u]

\* base_url or self.BASE_URL
BaseUrlOrDefault(base_url) ==
    IF base_url.given /\ base_url.url # "" THEN base_url.url ELSE BASE_URL

\* TokenMetricsClient(base_url=...): the client stores base_url or BASE_URL and
\* creates its BaseEndpoint, whose __init__ copies client.BASE_URL, the class
\* attribute
Construct(base_url) ==
    [base_url_arg |-> base_url,
     base_url |-> BaseUrlOrDefault(base_url),
     base_endpoint |-> [base_url |-> BASE_URL]]

\* url = f"{self.base_url}/{endpoint}": the base and the path joined by a slash
Url(endpoint_object, endpoint) ==
    [base |-> endpoint_object.base_url, path |-> endpoint]

\* json_data: None, or a JSON value
NoJson == [given |-> FALSE, body |-> BodyList(<<>>)]
Json(b) == [given |-> TRUE, body |-> b]

\* an HTTP exchange ends with a transport error or with a response; the body
\* of a response is JSON, or text that response.json() rejects (by raising
\* requests.exceptions.JSONDecodeError, or json.JSONDecodeError with a requests
\* older than 2.27)
NoResponse == [kind |-> "none", status |-> 0, body |-> BodyList(<<>>)]
TransportFailure == [kind |-> "transport", status |-> 0, body |-> BodyList(<<>>)]
HttpReply(status, body) == [kind |-> "http", status |-> status, body |-> body]
NonJsonReply(status) == [kind |-> "nonjson", status |-> status, body |-> BodyList(<<>>)]
NonJsonReplyLegacy(status) ==
    [kind |-> "nonjson_legacy", status |-> status, body |-> BodyList(<<>>)]

\* exceptions: has_attr is hasattr(e, 'response'), which holds for every
\* requests.exceptions.RequestException; response is e.response (has_response:
\* it is not None)
NoExc ==
    [type |-> "none", status |-> 0, has_response |-> FALSE, has_attr |-> FALSE,
     response |-> NoResponse]
\* raise ValueError(f"Unsupported HTTP method: {method}")
UnsupportedMethod ==
    [type |-> "ValueError", status |-> 0, has_response |-> FALSE,
     has_attr |-> FALSE, response |-> NoResponse]
\* requests.get / requests.post raised (no response exists)
TransportError ==
    [type |-> "ConnectionError", status |-> 0, has_response |-> FALSE,
     has_attr |-> TRUE, response |-> NoResponse]
\* response.raise_for_status() raised HTTPError(..., response=response)
HTTPError(response) ==
    [type |-> "HTTPError", status |-> response.status, has_response |-> TRUE,
     has_attr |-> TRUE, response |-> response]
\* response.json() raised: a RequestException without a response, or (legacy)
\* a ValueError
JSONDecodeError(legacy) ==
    [type |-> "JSONDecodeError", status |-> 0, has_response |-> FALSE,
     has_attr |-> ~legacy, response |-> NoResponse]

\* method.lower()
Lower(method) ==
    CASE method = "GET" -> "get"
      [] method = "POST" -> "post"
      [] method = "PUT" -> "put"
      [] OTHER -> method

\* a dispatch that sends every method it does not know as a POST
SupportedAny(method) == TRUE

\* the branch of the if / elif / else on method.lower()
Supported(method) == Lower(method) \in {"get", "post"}

\* a dispatch that sets the content-type header for every method
HttpCallAlwaysContentType(method, endpoint, p, json_data) ==
    IF Lower(method) = "get"
    THEN [verb |-> "GET", endpoint |-> endpoint,
          query |-> IF p.given THEN p.dict ELSE EmptyDict,
          has_json |-> FALSE, json |-> NoJson.body, content_type |-> TRUE]
    ELSE [verb |-> "POST", endpoint |-> endpoint, query |-> EmptyDict,
          has_json |-> json_data.given, json |-> json_data.body,
          content_type |-> TRUE]

\* what is handed to the requests library:
\* requests.get(url, headers=headers, params=params), or, with the content-type
\* header added, requests.post(url, headers=headers, json=json_data)
HttpCall(method, endpoint, p, json_data) ==
    IF Lower(method) = "get"
    THEN [verb |-> "GET", endpoint |-> endpoint,
          query |-> IF p.given THEN p.dict ELSE EmptyDict,
          has_json |-> FALSE, json |-> NoJson.body, content_type |-> FALSE]
    ELSE [verb |-> "POST", endpoint |-> endpoint, query |-> EmptyDict,
          has_json |-> json_data.given, json |-> json_data.body,
          content_type |-> TRUE]

\* the parameters that reach the URL: requests leaves out a key whose value
\* is None; an empty string is sent as `key=`
Transmitted(query) ==
    [k \in { n \in DOMAIN query : n \in {"limit", "page"} \/ query[n] # NoneStr }
       |-> query[k]]

\* a call that also hands the chunk's parameters over as the JSON body
WireRequestAsJson(method, endpoint, chunk_params) ==
    HttpCall(method, endpoint, Given(chunk_params), Json(BodyDict(chunk_params)))

\* the HTTP request of a call self._request(method, endpoint, chunk_params),
\* which passes no json_data
WireRequest(method, endpoint, chunk_params) ==
    HttpCall(method, endpoint, Given(chunk_params), NoJson)

\* response.raise_for_status() raises: client and server error statuses
RaisesForStatus(status) == 400 <= status /\ status < 600

\* a _request that raises for transport errors only
FailsOnlyTransport(reply) == reply.kind = "transport"

\* _request raises: requests raised, raise_for_status() did, or
\* response.json() did
Fails(reply) ==
    \/ reply.kind = "transport"
    \/ RaisesForStatus(reply.status)
    \/ reply.kind \in {"nonjson", "nonjson_legacy"}

\* the exception that leaves _request (re-raised by the except block when it
\* is a RequestException)
Raised(reply) ==
    IF reply.kind = "transport" THEN TransportError
    ELSE IF RaisesForStatus(reply.status) THEN HTTPError(reply)
    ELSE JSONDecodeError(reply.kind = "nonjson_legacy")

-----------------------------------------------------------------------------
(* BaseEndpoint._paginated_request *)

\* endpoint_limits
EndpointLimits ==
    [e \in {"daily-ohlcv", "hourly-ohlcv", "trader-grades", "investor-grades",
            "market-metrics", "trader-indices", "trading-signals", "default"}
       |-> IF e = "daily-ohlcv" THEN 100 ELSE 1000]

\* custom_limit: None or an int
NoLimit == [given |-> FALSE, value |-> 0]
Custom(n) == [given |-> TRUE, value |-> n]

\* a resolution that tests the truth value of custom_limit, so that 0 counts as
\* not provided
ResolveLimitTruthy(endpoint, custom_limit) ==
    IF custom_limit.given /\ custom_limit.value # 0 THEN custom_limit.value
    ELSE IF endpoint \in DOMAIN EndpointLimits THEN EndpointLimits[endpoint]
    ELSE EndpointLimits["default"]

\* if custom_limit is not None: limit = custom_limit
\* else: limit = endpoint_limits.get(endpoint, endpoint_limits['default'])
ResolveLimit(endpoint, custom_limit) ==
    IF custom_limit.given THEN custom_limit.value
    ELSE IF endpoint \in DOMAIN EndpointLimits THEN EndpointLimits[endpoint]
    ELSE EndpointLimits["default"]

\* params after `params['limit'] = limit` alone
NormaliseKeepPage(p, lim) == Put(p, "limit", lim)

\* params after `params['limit'] = limit` and `del params['page']`
Normalise(p, lim) == Del(Put(p, "limit", lim), "page")

\* a test that sends every request through _chunk_date_range
UsesChunkerAlways(p) == TRUE

\* the else branch of `if not startDate or not endDate`
UsesChunker(p) ==
    Truthy(GetDate(p, "startDate")) /\ Truthy(GetDate(p, "endDate"))

\* date_chunks: the chunker is called only when both dates are truthy
DateChunks(p, max_days) ==
    LET startDate == GetDate(p, "startDate")
        endDate == GetDate(p, "endDate")
    IN  IF ~UsesChunker(p)
        THEN << <<startDate, endDate>> >>
        ELSE ChunkDateRange(startDate, endDate, max_days)

\* the activation of _chunk_date_range that _paginated_request made, if any
ChunkerAfterCall(c, p, max_days) ==
    IF UsesChunker(p)
    THEN [pc |-> "returned", startDate |-> GetDate(p, "startDate"),
          endDate |-> GetDate(p, "endDate"), max_days |-> max_days,
          result |-> DateChunks(p, max_days)]
    ELSE c

\* chunk_params with the table's default in place of the resolved limit
ChunkParamsDefaultLimit(p, chunk, lim) ==
    LET c1 == IF Truthy(chunk[1]) THEN Put(p, "startDate", chunk[1]) ELSE p
        c2 == IF Truthy(chunk[2]) THEN Put(c1, "endDate", chunk[2]) ELSE c1
    IN  Put(Put(c2, "limit", EndpointLimits["default"]), "page", 0)

\* chunk_params that keep the caller's startDate / endDate for every chunk
ChunkParamsCallerDates(p, chunk, lim) == Put(Put(p, "limit", lim), "page", 0)

\* chunk_params without the `chunk_params['page'] = 0` assignment
ChunkParamsKeepPage(p, chunk, lim) ==
    LET c1 == IF Truthy(chunk[1]) THEN Put(p, "startDate", chunk[1]) ELSE p
        c2 == IF Truthy(chunk[2]) THEN Put(c1, "endDate", chunk[2]) ELSE c1
    IN  Put(c2, "limit", lim)

\* chunk_params: a copy of params with the chunk's bounds, limit and page = 0
ChunkParams(p, chunk, lim) ==
    LET c1 == IF Truthy(chunk[1]) THEN Put(p, "startDate", chunk[1]) ELSE p
        c2 == IF Truthy(chunk[2]) THEN Put(c1, "endDate", chunk[2]) ELSE c1
    IN  Put(Put(c2, "limit", lim), "page", 0)

\* data = response.get('data', []) for a dict, the response itself otherwise
DataOf(response) ==
    IF response.isdict
    THEN IF "data" \in DOMAIN response.dict THEN response.dict["data"] ELSE <<>>
    ELSE response.list

\* a meta that keeps the data entry of the response
MetaOfKeepData(response) ==
    IF response.isdict THEN response.dict ELSE EmptyDict

\* meta = {k: v for k, v in response.items() if k != 'data'}; none for a non-dict
MetaOf(response) ==
    IF response.isdict THEN Del(response.dict, "data") ELSE EmptyDict

\* a merge in which the entries collected earlier win
MergeMetaFirstWins(meta_so_far, response) == Update(MetaOf(response), meta_so_far)

\* if meta: combined_meta.update(meta)
MergeMeta(meta_so_far, response) == Update(meta_so_far, MetaOf(response))

\* a merge that skips the records already accumulated
MergeDataDedup(data_so_far, response) ==
    data_so_far \o SelectSeq(DataOf(response),
                             LAMBDA r : \A i \in 1..Len(data_so_far) : data_so_far[i] # r)

\* if data: all_data.extend(data)
MergeData(data_so_far, response) == data_so_far \o DataOf(response)

\* a return that wraps the records in a mapping whatever was collected
FinalResultAlwaysDict(data, meta) == BodyDict(Put(meta, "data", data))

\* the value returned after the loop
FinalResult(data, meta) ==
    IF DOMAIN meta # {}
    THEN BodyDict(Put(meta, "data", data))
    ELSE IF data # <<>> /\ data[1].isdict
    THEN BodyDict(Put(EmptyDict, "data", data))
    ELSE BodyList(data)

\* chunk_params bound to the params object itself, without the copy
ParamsAliased(p, chunk_params) == chunk_params

\* params after an iteration: chunk_params = params.copy() takes the writes of
\* lines 194-204, params itself is not written
ParamsAfterChunk(p, chunk_params) == p

\* tqdm(total=total_iterations, ...): the bar of a call, at 0
PbarOpen(chunks) == [total |-> Len(chunks), n |-> 0]

\* an update that fills the bar
PbarFill(bar) == [bar EXCEPT !.n = bar.total]

\* pbar.update(1)
PbarUpdate(bar) == [bar EXCEPT !.n = @ + 1]

NoOutcome == [kind |-> "none", value |-> BodyList(<<>>), exc |-> NoExc]
Returned(v) == [kind |-> "returned", value |-> v, exc |-> NoExc]
Raises(e) == [kind |-> "raised", value |-> BodyList(<<>>), exc |-> e]

\* what a call of _request gave back: a body, or an exception
Gave(body) == [ok |-> TRUE, body |-> body, exc |-> NoExc]
Threw(e) == [ok |-> FALSE, body |-> BodyList(<<>>), exc |-> e]

\* a loop that skips the next chunk after a response without records
NextIndexSkipOnEmpty(i, response) ==
    IF DataOf(response) = <<>> THEN i + 2 ELSE i + 1

\* for i, (chunk_start, chunk_end) in enumerate(date_chunks): the index of the
\* iteration that follows the one whose response has been merged
NextIndex(i, response) == i + 1

\* an except clause around the call that returns what was aggregated so far
AfterFailureReturnsPartial(e, data, meta) == Returned(FinalResult(data, meta))

\* _request raised e inside the loop: there is no except clause, the with block
\* is left and e leaves _paginated_request
AfterFailure(e, data, meta) == Raises(e)

\* From the top of loop iteration i + 1 to the next point where the activation
\* blocks or ends: the request of the next chunk is prepared and handed to
\* _request (which sends it, or raises for an unsupported method), or, after the
\* last chunk, the result is built and returned.  `out` and `rcv` are the number
\* of HTTP requests outstanding and the results of _request so far.
Proceed(p, lim, chunks, i, data, meta, out, rcv) ==
    IF i < Len(chunks)
    THEN LET chunk_params == ChunkParams(p, chunks[i + 1], lim)
         IN  /\ sent' = Append(sent, [method |-> args.method,
                                      endpoint |-> args.endpoint,
                                      params |-> chunk_params])
             /\ outstanding' = IF Supported(args.method) THEN out + 1 ELSE out
             /\ wire' = IF Supported(args.method)
                        THEN Append(wire, WireRequest(args.method, args.endpoint,
                                                      chunk_params))
                        ELSE wire
             /\ urls' = IF Supported(args.method)
                        THEN Append(urls, Url(client.base_endpoint, args.endpoint))
                        ELSE urls
             /\ received' = IF Supported(args.method)
                            THEN rcv
                            ELSE Append(rcv, Threw(UnsupportedMethod))
             /\ outcome' = IF Supported(args.method)
                           THEN outcome
                           ELSE AfterFailure(UnsupportedMethod, data, meta)
             /\ pc' = IF Supported(args.method) THEN "waiting" ELSE outcome'.kind
             /\ params' = ParamsAfterChunk(p, chunk_params)
    ELSE /\ pc' = "returned"
         /\ params' = p
         /\ outcome' = Returned(FinalResult(data, meta))
         /\ outstanding' = out
         /\ received' = rcv
         /\ UNCHANGED <<sent, wire, urls>>

\* _paginated_request is entered: lines 142-188, then the first iteration
Call ==
    /\ pc = "call"
    /\ LET p0 == IF args.params.given THEN args.params.dict ELSE EmptyDict
           lim == ResolveLimit(args.endpoint, args.custom_limit)
           p == Normalise(p0, lim)
           chunks == DateChunks(p0, args.max_days)
       IN  /\ limit' = lim
           /\ date_chunks' = chunks
           /\ idx' = 0
           /\ all_data' = <<>>
           /\ combined_meta' = EmptyDict
           /\ pbar' = PbarOpen(chunks)
           /\ chunker' = ChunkerAfterCall(chunker, p0, args.max_days)
           /\ Proceed(p, lim, chunks, 0, <<>>, EmptyDict, outstanding, received)
    /\ UNCHANGED <<args, replies, req, tool, acts, client, loop>>

\* the outstanding HTTP exchange ends with `reply`: _request raises, or returns
\* the body, which is merged (lines 209-223) before the loop goes on
Respond(reply) ==
    /\ pc = "waiting"
    /\ IF Fails(reply)
       THEN /\ received' = Append(received, Threw(Raised(reply)))
            /\ outcome' = AfterFailure(Raised(reply), all_data, combined_meta)
            /\ pc' = outcome'.kind
            /\ outstanding' = outstanding - 1
            /\ UNCHANGED <<idx, all_data, combined_meta, pbar, sent, wire, params, urls>>
       ELSE LET data == MergeData(all_data, reply.body)
                meta == MergeMeta(combined_meta, reply.body)
            IN  /\ all_data' = data
                /\ combined_meta' = meta
                /\ idx' = NextIndex(idx, reply.body)
                /\ pbar' = PbarUpdate(pbar)
                /\ Proceed(params, limit, date_chunks, NextIndex(idx, reply.body),
                           data, meta,
                           outstanding - 1, Append(received, Gave(reply.body)))
    /\ replies' = Append(replies, reply)
    /\ UNCHANGED <<chunker, args, limit, date_chunks, req, tool, acts, client, loop>>

-----------------------------------------------------------------------------
(* A direct call of BaseEndpoint._request *)

NoResult == [ok |-> FALSE, body |-> BodyList(<<>>), exc |-> NoExc]

\* lines 64-79: what _request gives its caller once the HTTP exchange ended
RequestResult(reply) ==
    IF Fails(reply) THEN Threw(Raised(reply)) ELSE Gave(reply.body)

ReqIdle ==
    [pc |-> "idle", method |-> "get", endpoint |-> "price", params |-> NoParams,
     json_data |-> NoJson, result |-> NoResult]

\* _request is entered: lines 39-58, up to the HTTP call or the ValueError
RequestCall ==
    /\ req.pc = "called"
    /\ IF Supported(req.method)
       THEN /\ wire' = Append(wire, HttpCall(req.method, req.endpoint, req.params,
                                             req.json_data))
            /\ urls' = Append(urls, Url(client.base_endpoint, req.endpoint))
            /\ outstanding' = outstanding + 1
            /\ req' = [req EXCEPT !.pc = "waiting"]
       ELSE /\ req' = [req EXCEPT !.pc = "raised",
                                  !.result = Threw(UnsupportedMethod)]
            /\ UNCHANGED <<wire, outstanding, urls>>
    /\ UNCHANGED <<chunker, aggVars, replies, tool, acts, client, loop>>

\* the HTTP exchange of the direct call ends with `reply`: lines 60-79
RequestRespond(reply) ==
    /\ req.pc = "waiting"
    /\ req' = [req EXCEPT !.pc = IF Fails(reply) THEN "raised" ELSE "returned",
                          !.result = RequestResult(reply)]
    /\ outstanding' = outstanding - 1
    /\ replies' = Append(replies, reply)
    /\ UNCHANGED <<chunker, aggVars, wire, tool, acts, client, urls, loop>>

-----------------------------------------------------------------------------
(* TMBaseTool._handle_error and DailyOHLCVTool._run *)

\* what _run gives back: a string (its prefix and what follows it), or an
\* exception that leaves _run
NoOutput == [kind |-> "none", prefix |-> "", text |-> ""]
Text(prefix, text) == [kind |-> "text", prefix |-> prefix, text |-> text]
Propagated == [kind |-> "propagated", prefix |-> "", text |-> ""]

\* entry.get(...) on a data item that is not a dict
AttributeError ==
    [type |-> "AttributeError", status |-> 0, has_response |-> FALSE,
     has_attr |-> FALSE, response |-> NoResponse]

\* error.response.json() returns a dict: there is a response, its body is JSON
\* and a mapping (.get on a list raises, as .json() on None does)
DetailReadable(error) ==
    /\ error.has_response
    /\ error.response.kind = "http"
    /\ error.response.body.isdict

\* a _handle_error without the try / except around error.response.json()
HandleErrorUnguarded(error) ==
    IF error.has_attr
    THEN IF DetailReadable(error)
         THEN IF "detail" \in DOMAIN error.response.body.dict
              THEN Text("API Error:", "detail")
              ELSE Text("API Error:", "str(error)")
         ELSE Propagated
    ELSE Text("Error:", "str(error)")

\* _handle_error
HandleError(error) ==
    IF error.has_attr
    THEN IF DetailReadable(error) /\ "detail" \in DOMAIN error.response.body.dict
         THEN Text("API Error:", "detail")
         ELSE Text("API Error:", "str(error)")
    ELSE Text("Error:", "str(error)")

\* Optional[str] arguments use the encoding of the date strings; a symbol or a
\* name is a string that is no date
ToolArgNames == {"token_id", "symbol", "token_name", "start_date", "end_date"}

\* params = {k: v for k, v in params.items() if v is not None}
ToolParams(a) ==
    [k \in { n \in ToolArgNames : a[n] # NoneStr } |-> a[k]]

\* lines 72-82: the validation of start_date and end_date
ValidationError(a) ==
    IF Truthy(a["start_date"]) /\ ~Parseable(a["start_date"])
    THEN Text("Error:", "start_date must be in YYYY-MM-DD format")
    ELSE IF Truthy(a["end_date"]) /\ ~Parseable(a["end_date"])
    THEN Text("Error:", "end_date must be in YYYY-MM-DD format")
    ELSE NoOutput

\* lines 98-119: the response rendered as a string; entry.get raises for an
\* item that is not a dict, inside the try
Format(response) ==
    IF response.isdict /\ "data" \in DOMAIN response.dict
    THEN LET data == response.dict["data"]
         IN  IF data = <<>>
             THEN Text("", "No trader grades data found for the specified criteria.")
             ELSE IF \E i \in 1..Len(data) : ~data[i].isdict
             THEN HandleError(AttributeError)
             ELSE Text("", "formatted")
    ELSE Text("", "str(response)")

\* the exception caught by `except Exception as e`, if any
Caught(result) ==
    IF ~result.ok THEN result.exc
    ELSE IF /\ result.body.isdict
            /\ "data" \in DOMAIN result.body.dict
            /\ \E i \in 1..Len(result.body.dict["data"]) :
                  ~result.body.dict["data"][i].isdict
    THEN AttributeError
    ELSE NoExc

\* lines 95-122 after _request ended
AfterRequest(result) ==
    IF result.ok THEN Format(result.body) ELSE HandleError(result.exc)

ToolIdle ==
    [pc |-> "idle", a |-> [n \in ToolArgNames |-> NoneStr], caught |-> NoExc,
     output |-> NoOutput]

\* _run is entered: lines 70-95, up to the HTTP call of
\* _request("get", "/daily-ohlcv", params=params) or an early return
ToolRun ==
    /\ tool.pc = "called"
    /\ IF ValidationError(tool.a) # NoOutput
       THEN /\ tool' = [tool EXCEPT !.pc = "done",
                                    !.output = ValidationError(tool.a)]
            /\ UNCHANGED <<wire, outstanding, urls>>
       ELSE /\ wire' = Append(wire, HttpCall("get", "/daily-ohlcv",
                                             Given(ToolParams(tool.a)), NoJson))
            /\ urls' = Append(urls, Url(client.base_endpoint, "/daily-ohlcv"))
            /\ outstanding' = outstanding + 1
            /\ tool' = [tool EXCEPT !.pc = "waiting"]
    /\ UNCHANGED <<chunker, aggVars, replies, req, acts, client, loop>>

\* the HTTP exchange ends with `reply`: _request returns or raises, _run
\* renders the response or the error
ToolRespond(reply) ==
    /\ tool.pc = "waiting"
    /\ tool' = [tool EXCEPT !.pc = "done",
                            !.caught = Caught(RequestResult(reply)),
                            !.output = AfterRequest(RequestResult(reply))]
    /\ outstanding' = outstanding - 1
    /\ replies' = Append(replies, reply)
    /\ UNCHANGED <<chunker, aggVars, wire, req, acts, client, urls, loop>>

-----------------------------------------------------------------------------
(* Two activations of BaseEndpoint._paginated_request on one endpoint object *)

\* the locals of an activation that has not started: every name the method
\* binds is a local of the call (endpoint_limits, limit, date_chunks, all_data,
\* combined_meta), params is the caller's own dict
Fresh(a) ==
    [pc |-> "call", args |-> a,
     params |-> IF a.params.given THEN a.params.dict ELSE EmptyDict,
     endpoint_limits |-> EmptyDict, limit |-> 0, date_chunks |-> <<>>, idx |-> 0,
     all_data |-> <<>>, combined_meta |-> EmptyDict, sent |-> <<>>,
     received |-> <<>>, replies |-> <<>>, outcome |-> NoOutcome]

\* an accumulator kept on the endpoint object: every activation extends the
\* list of the first one
AccumulatorShared(as, i) == as[1].all_data

\* all_data of activation i: the list bound by `all_data = []` in that call
Accumulator(as, i) == as[i].all_data

\* as Proceed, on the locals `act` of one activation
ProceedStep(act) ==
    IF act.idx < Len(act.date_chunks)
    THEN LET chunk_params == ChunkParams(act.params, act.date_chunks[act.idx + 1],
                                         act.limit)
             call == [method |-> act.args.method, endpoint |-> act.args.endpoint,
                      params |-> chunk_params]
         IN  IF Supported(act.args.method)
             THEN [act EXCEPT !.pc = "waiting",
                              !.params = ParamsAfterChunk(act.params, chunk_params),
                              !.sent = Append(@, call)]
             ELSE [act EXCEPT !.pc = "raised",
                              !.params = ParamsAfterChunk(act.params, chunk_params),
                              !.sent = Append(@, call),
                              !.received = Append(@, Threw(UnsupportedMethod)),
                              !.outcome = AfterFailure(UnsupportedMethod, act.all_data,
                                                       act.combined_meta)]
    ELSE [act EXCEPT !.pc = "returned",
                     !.outcome = Returned(FinalResult(act.all_data, act.combined_meta))]

\* as Call: activation i runs from its entry to its first request
CallStep(as, i) ==
    LET a == as[i].args
        lim == ResolveLimit(a.endpoint, a.custom_limit)
    IN  ProceedStep([as[i] EXCEPT
                       !.endpoint_limits = EndpointLimits,
                       !.limit = lim,
                       !.params = Normalise(as[i].params, lim),
                       !.date_chunks = DateChunks(as[i].params, a.max_days),
                       !.idx = 0,
                       !.all_data = <<>>,
                       !.combined_meta = EmptyDict])

\* as Respond: the outstanding request of activation i ends with `reply`
RespondStep(as, i, reply) ==
    IF Fails(reply)
    THEN [as[i] EXCEPT !.pc = "raised",
                       !.received = Append(@, Threw(Raised(reply))),
                       !.replies = Append(@, reply),
                       !.outcome = AfterFailure(Raised(reply), as[i].all_data,
                                                as[i].combined_meta)]
    ELSE ProceedStep([as[i] EXCEPT
                        !.all_data = MergeData(Accumulator(as, i), reply.body),
                        !.combined_meta = MergeMeta(as[i].combined_meta, reply.body),
                        !.idx = NextIndex(@, reply.body),
                        !.received = Append(@, Gave(reply.body)),
                        !.replies = Append(@, reply)])

\* no concurrent activations
NoActs == << >>

TwoCall(i) ==
    /\ acts # NoActs
    /\ acts[i].pc = "call"
    /\ acts' = [acts EXCEPT ![i] = CallStep(acts, i)]
    /\ UNCHANGED <<chunker, pagVars, req, tool, client, urls, loop>>

TwoRespond(i, reply) ==
    /\ acts # NoActs
    /\ acts[i].pc = "waiting"
    /\ acts' = [acts EXCEPT ![i] = RespondStep(acts, i, reply)]
    /\ UNCHANGED <<chunker, pagVars, req, tool, client, urls, loop>>

-----------------------------------------------------------------------------
(* Inputs *)

Methods == {"get", "GET", "POST", "put"}

\* the identifiers of the limit table, and two that are not in it
Endpoints ==
    {"daily-ohlcv", "hourly-ohlcv", "trader-grades", "investor-grades",
     "market-metrics", "trader-indices", "trading-signals", "price", "/daily-ohlcv"}

CustomLimits == {NoLimit, Custom(0), Custom(50)}

\* the first day of the aggregator's date ranges: 2024-02-27, so that the
\* ranges cross the leap day and the end of the month
Base == ToOrdinal(2024, 2, 27)

\* marks a date key the caller's params do not contain
AbsentStr == [tag |-> "absent", y |-> 0, m |-> 0, d |-> 0, pad |-> TRUE]

\* <<startDate, endDate, max_days>> of a call
DateScenarios ==
    { <<Strftime(Base), Strftime(Base + k), md>> : k \in 0..MaxSpan, md \in 1..MaxDays }
        \cup { <<Ymd(2023, 1, 1, TRUE), Ymd(2023, 3, 15, TRUE), DefaultMaxDays>>,
               <<Ymd(2024, 2, 27, FALSE), Strftime(Base + MaxSpan), 1>>,
               <<Strftime(Base + MaxSpan), Strftime(Base), 1>>,
               <<AbsentStr, AbsentStr, 1>>,
               <<AbsentStr, Strftime(Base), 1>>,
               <<Strftime(Base), NoneStr, 1>>,
               <<EmptyStr, Strftime(Base + MaxSpan), 1>>,
               <<BadStr, Strftime(Base + MaxSpan), 1>>,
               <<Strftime(Base), Ymd(2024, 2, 30, TRUE), 1>> }

\* the caller's entries other than the dates
ExtraDicts ==
    { [k \in ks |-> CASE k = "limit" -> 5 [] k = "page" -> 3 [] OTHER -> Btc] :
        ks \in SUBSET {"limit", "page", "symbol"} }

WithDates(extra, sc) ==
    LET d1 == IF sc[1] = AbsentStr THEN extra ELSE Put(extra, "startDate", sc[1])
    IN  IF sc[2] = AbsentStr THEN d1 ELSE Put(d1, "endDate", sc[2])

\* the records and metadata the upstream answers with
r1 == Rec("r1")
r2 == Rec("r2")
s1 == Scalar("s1")

DataArrays == { <<>>, <<r1>>, <<r2, r1>> }

\* metadata values are opaque JSON scalars
Metas == { EmptyDict, [note |-> "a"], [total |-> "a"], [total |-> "b"] }

Bodies ==
    { BodyDict(Put(meta, "data", data)) : meta \in Metas, data \in DataArrays }
        \cup { BodyDict(meta) : meta \in Metas }
        \cup { BodyList(l) : l \in DataArrays \cup { <<s1>> } }

FailedReplies == { TransportFailure, HttpReply(404, BodyDict([message |-> "a"])) }

AllReplies == { HttpReply(200, b) : b \in Bodies } \cup FailedReplies

PlainReplies ==
    { HttpReply(200, BodyDict([data |-> <<r1>>, total |-> "a"])),
      HttpReply(200, BodyList(<<r1>>)) } \cup FailedReplies

\* the base_url argument of the constructor: absent, empty, or a custom URL
BaseUrlArgs == { NoUrl, GivenUrl(""), GivenUrl("http://localhost:8000") }

\* the arguments of a direct call of _request
DirectMethods == Methods \cup {"post"}

DirectParams ==
    { NoParams, Given(EmptyDict), Given([symbol |-> Btc]),
      Given([symbol |-> Btc, limit |-> 5]) }

JsonChoices == { NoJson, Json(BodyDict([symbol |-> "ETH"])), Json(BodyList(<<r1>>)) }

\* the arguments of DailyOHLCVTool._run
ToolArgs ==
    { [n \in ToolArgNames |->
          CASE n = "symbol" -> symbol
            [] n = "start_date" -> start_date
            [] n = "end_date" -> end_date
            [] OTHER -> NoneStr] :
        symbol \in {NoneStr, EmptyStr, Btc},
        start_date \in {NoneStr, EmptyStr, BadStr, Strftime(Base),
                        Ymd(2024, 2, 7, FALSE), Ymd(2024, 2, 30, TRUE)},
        end_date \in {NoneStr, EmptyStr, BadStr, Strftime(Base + MaxSpan)} }

\* the ends of the HTTP exchange of a direct call or of a tool: every kind of
\* body, the statuses on both sides of 400, failures with and without a
\* readable `detail`
ErrorBodies ==
    { BodyDict([detail |-> "a"]), BodyDict([message |-> "a"]), BodyList(<<r1>>) }

DirectReplies ==
    { HttpReply(st, b) :
        st \in {200, 399},
        b \in { BodyDict([data |-> <<r1>>, total |-> "a"]), BodyDict([data |-> <<>>]),
                BodyDict([data |-> <<r1, s1>>]), BodyDict([message |-> "a"]),
                BodyList(<<r1>>) } }
        \cup { HttpReply(st, b) : st \in {400, 404, 500, 599}, b \in ErrorBodies }
        \cup { NonJsonReply(st) : st \in {200, 204, 400, 502} }
        \cup { NonJsonReplyLegacy(st) : st \in {200, 502} }
        \cup { TransportFailure }

\* the arguments of two concurrent calls: one, two or three chunks, or no dates
TwoArgs ==
    { [method |-> method, endpoint |-> endpoint,
       params |-> Given(WithDates(extra, sc)), max_days |-> sc[3],
       custom_limit |-> NoLimit] :
        method \in {"get", "put"},
        endpoint \in {"daily-ohlcv", "price"},
        extra \in {EmptyDict, [symbol |-> Btc, page |-> 3]},
        sc \in { <<Strftime(Base), Strftime(Base + 2), 1>>,
                 <<Strftime(Base), Strftime(Base + MaxSpan), MaxSpan - 1>>,
                 <<AbsentStr, Strftime(Base), 1>> } }

-----------------------------------------------------------------------------
(* Specifications *)

Idle ==
    /\ params = EmptyDict
    /\ limit = 0
    /\ date_chunks = <<>>
    /\ idx = 0
    /\ all_data = <<>>
    /\ combined_meta = EmptyDict
    /\ sent = <<>>
    /\ wire = <<>>
    /\ outstanding = 0
    /\ pbar = [total |-> 0, n |-> 0]
    /\ received = <<>>
    /\ outcome = NoOutcome
    /\ replies = <<>>
    /\ urls = <<>>

\* a call of _paginated_request with any method, endpoint, limit and params
InitRequest ==
    /\ chunker = ChunkerIdle
    /\ pc = "call"
    /\ \E method \in Methods, endpoint \in Endpoints, custom \in CustomLimits,
          sc \in DateScenarios :
          \E p \in {NoParams} \cup { Given(WithDates(e, sc)) : e \in ExtraDicts } :
              args = [method |-> method, endpoint |-> endpoint, params |-> p,
                      max_days |-> sc[3], custom_limit |-> custom]
    /\ Idle
    /\ req = ReqIdle
    /\ tool = ToolIdle
    /\ acts = NoActs
    /\ client = Construct(NoUrl)
    /\ loop = LoopIdle

\* a direct call of _chunk_date_range
InitChunk ==
    /\ \E startDate \in DateStrings, endDate \in DateStrings, md \in MaxDaysChoices :
          chunker = [pc |-> "called", startDate |-> startDate, endDate |-> endDate,
                     max_days |-> md, result |-> <<>>]
    /\ pc = "idle"
    /\ args = [method |-> "get", endpoint |-> "price", params |-> NoParams,
               max_days |-> DefaultMaxDays, custom_limit |-> NoLimit]
    /\ Idle
    /\ req = ReqIdle
    /\ tool = ToolIdle
    /\ acts = NoActs
    /\ client = Construct(NoUrl)
    /\ loop = LoopIdle

\* either entry point is called
Init == InitRequest \/ InitChunk

Next ==
    \/ ChunkCall
    \/ Call
    \/ \E reply \in PlainReplies : Respond(reply)

Spec == Init /\ [][Next]_vars

\* a GET of daily-ohlcv whose upstream answers with any body
InitMerge ==
    /\ chunker = ChunkerIdle
    /\ pc = "call"
    /\ \E sc \in DateScenarios :
          args = [method |-> "get", endpoint |-> "daily-ohlcv",
                  params |-> Given(WithDates(EmptyDict, sc)),
                  max_days |-> sc[3], custom_limit |-> NoLimit]
    /\ Idle
    /\ req = ReqIdle
    /\ tool = ToolIdle
    /\ acts = NoActs
    /\ client = Construct(NoUrl)
    /\ loop = LoopIdle

NextMerge ==
    \/ Call
    \/ \E reply \in AllReplies : Respond(reply)

SpecMerge == InitMerge /\ [][NextMerge]_vars

\* a direct call of _request with any method, params and json_data
InitDirect ==
    /\ \E method \in DirectMethods, endpoint \in {"price", "/daily-ohlcv"},
          p \in DirectParams, json_data \in JsonChoices :
          req = [pc |-> "called", method |-> method, endpoint |-> endpoint,
                 params |-> p, json_data |-> json_data, result |-> NoResult]
    /\ tool = ToolIdle

\* a run of the daily OHLCV tool
InitRun ==
    /\ \E a \in ToolArgs :
          tool = [pc |-> "called", a |-> a, caught |-> NoExc, output |-> NoOutput]
    /\ req = ReqIdle

InitTool ==
    /\ chunker = ChunkerIdle
    /\ pc = "idle"
    /\ args = [method |-> "get", endpoint |-> "price", params |-> NoParams,
               max_days |-> DefaultMaxDays, custom_limit |-> NoLimit]
    /\ Idle
    /\ acts = NoActs
    /\ \E base_url \in BaseUrlArgs : client = Construct(base_url)
    /\ loop = LoopIdle
    /\ (InitDirect \/ InitRun)

NextTool ==
    \/ RequestCall
    \/ \E reply \in DirectReplies : RequestRespond(reply)
    \/ ToolRun
    \/ \E reply \in DirectReplies : ToolRespond(reply)

SpecTool == InitTool /\ [][NextTool]_vars

\* two calls of _paginated_request on one endpoint object, each with its own
\* params dict, their steps interleaved in any order
InitTwo ==
    /\ chunker = ChunkerIdle
    /\ pc = "idle"
    /\ args = [method |-> "get", endpoint |-> "price", params |-> NoParams,
               max_days |-> DefaultMaxDays, custom_limit |-> NoLimit]
    /\ Idle
    /\ req = ReqIdle
    /\ tool = ToolIdle
    /\ client = Construct(NoUrl)
    /\ loop = LoopIdle
    /\ \E a1 \in TwoArgs, a2 \in TwoArgs : acts = << Fresh(a1), Fresh(a2) >>

NextTwo ==
    \E i \in 1..2 :
        \/ TwoCall(i)
        \/ \E reply \in PlainReplies : TwoRespond(i, reply)

SpecTwo == InitTwo /\ [][NextTwo]_vars

\* parseable spellings only
ParseableStrings == { d \in DateStrings : Parseable(d) }

\* max_days as a caller may pass it, zero included
LoopMaxDays == 0..MaxDays

\* a statement-by-statement call of _chunk_date_range on parseable dates
InitLoop ==
    /\ \E startDate \in ParseableStrings, endDate \in ParseableStrings,
          md \in LoopMaxDays :
          loop = [pc |-> "called", startDate |-> startDate, endDate |-> endDate,
                  start |-> 0, end |-> 0, max_days |-> md, chunk_start |-> 0,
                  windows |-> 0]
    /\ chunker = ChunkerIdle
    /\ pc = "idle"
    /\ args = [method |-> "get", endpoint |-> "price", params |-> NoParams,
               max_days |-> DefaultMaxDays, custom_limit |-> NoLimit]
    /\ Idle
    /\ req = ReqIdle
    /\ tool = ToolIdle
    /\ acts = NoActs
    /\ client = Construct(NoUrl)

\* a call of _paginated_request on daily-ohlcv with any method
InitLiveRequest ==
    /\ chunker = ChunkerIdle
    /\ pc = "call"
    /\ \E method \in Methods, sc \in DateScenarios :
          args = [method |-> method, endpoint |-> "daily-ohlcv",
                  params |-> Given(WithDates(EmptyDict, sc)),
                  max_days |-> sc[3], custom_limit |-> NoLimit]
    /\ Idle
    /\ req = ReqIdle
    /\ tool = ToolIdle
    /\ acts = NoActs
    /\ client = Construct(NoUrl)
    /\ loop = LoopIdle

InitLive == InitLoop \/ InitLiveRequest

NextLive ==
    \/ LoopEnter
    \/ LoopIterate
    \/ LoopExit
    \/ Call
    \/ \E reply \in PlainReplies : Respond(reply)

\* the interpreter runs every statement it reaches, and every request issued
\* eventually returns or fails
SpecLive ==
    /\ InitLive
    /\ [][NextLive]_vars
    /\ WF_vars(LoopEnter \/ LoopIterate \/ LoopExit \/ Call)
    /\ WF_vars(\E reply \in PlainReplies : Respond(reply))

-----------------------------------------------------------------------------
(* Properties *)

\* the bodies _request returned, concatenated in the order they were returned
RECURSIVE ConcatData(_)
ConcatData(rs) ==
    IF rs = <<>>
    THEN <<>>
    ELSE LET n == Len(rs)
             front == SubSeq(rs, 1, n - 1)
         IN  IF rs[n].ok THEN ConcatData(front) \o DataOf(rs[n].body)
                         ELSE ConcatData(front)

RECURSIVE SumLen(_)
SumLen(rs) ==
    IF rs = <<>>
    THEN 0
    ELSE LET n == Len(rs)
         IN  SumLen(SubSeq(rs, 1, n - 1)) + (IF rs[n].ok THEN Len(DataOf(rs[n].body)) ELSE 0)

\* the chunks whose mapping response supplied metadata key k
Suppliers(k) ==
    { i \in 1..Len(received) :
        received[i].ok /\ received[i].body.isdict /\ k \in DOMAIN received[i].body.dict }

MetaKeysSeen ==
    UNION { DOMAIN received[i].body.dict \ {"data"} :
              i \in { j \in 1..Len(received) : received[j].ok /\ received[j].body.isdict } }

LastOf(S) == CHOOSE i \in S : \A j \in S : j <= i

\* the records of a result: its data field, or the bare list
ResultData(res) == IF res.isdict THEN res.dict["data"] ELSE res.list

\* the dates the caller put into params (None when the key is missing)
CallerStart == GetDate(args.params.dict, "startDate")
CallerEnd == GetDate(args.params.dict, "endDate")

Days(w) == Strptime(w[2]) - Strptime(w[1])

CeilDiv(a, b) == (a + b - 1) \div b

\* C1 - Chunk coverage: for parseable start <= end and max_days N >= 1 the
\* chunker returns a non-empty ordered list of windows of calendar dates; the
\* first window starts on start, the last one ends on end, every window's end is
\* the next window's start, no window spans more than N days and none ends
\* after end.  (A zero-padded input string is returned as it was given; an
\* unpadded one, such as 2024-3-1, comes back zero-padded once the range is cut.)
C1_ChunkCoverage ==
    (/\ chunker.pc = "returned"
     /\ Parseable(chunker.startDate)
     /\ Parseable(chunker.endDate)
     /\ Strptime(chunker.startDate) <= Strptime(chunker.endDate))
    => LET w == chunker.result
           n == Len(w)
       IN  /\ n >= 1
           /\ \A i \in 1..n : Parseable(w[i][1]) /\ Parseable(w[i][2])
           /\ Strptime(w[1][1]) = Strptime(chunker.startDate)
           /\ Strptime(w[n][2]) = Strptime(chunker.endDate)
           /\ chunker.startDate.pad => w[1][1] = chunker.startDate
           /\ chunker.endDate.pad => w[n][2] = chunker.endDate
           /\ \A i \in 1..(n - 1) : w[i][2] = w[i + 1][1]
           /\ \A i \in 1..n : /\ Days(w[i]) >= 0
                              /\ Days(w[i]) <= chunker.max_days
                              /\ Strptime(w[i][2]) <= Strptime(chunker.endDate)

\* a range cut into at least three windows, the last one shorter than max_days
C1_Witness ==
    /\ chunker.pc = "returned"
    /\ Parseable(chunker.startDate)
    /\ Parseable(chunker.endDate)
    /\ Len(chunker.result) >= 3
    /\ Days(chunker.result[Len(chunker.result)]) < chunker.max_days

\* C2 - Fail-fast: when the request of chunk k fails, _paginated_request ends
\* by raising that failure unchanged, no request of a later chunk is ever
\* issued and no aggregated result is returned.
C2_FailFast ==
    \A k \in 1..Len(received) :
        ~received[k].ok
        => /\ k = Len(received)
           /\ Len(sent) = k
           /\ pc = "raised"
           /\ outcome.kind = "raised"
           /\ outcome.exc = received[k].exc
           /\ outcome.value = NoOutcome.value

\* the second of three chunks fails after the first delivered records
C2_Witness ==
    /\ pc = "raised"
    /\ Len(date_chunks) = 3
    /\ Len(received) = 2
    /\ received[1].ok
    /\ ~received[2].ok
    /\ all_data # <<>>
    /\ combined_meta # EmptyDict

\* C3 - Metadata merge is last-write-wins: a successful call returns, for
\* every key other than data that some chunk's mapping response carried, the
\* value of the last chunk that carried it, and its data is the concatenation
\* of the chunks' data arrays in chunk order.
C3_LastWriteWins ==
    pc = "returned"
    => LET res == outcome.value
       IN  /\ \A k \in MetaKeysSeen :
                 /\ res.isdict
                 /\ k \in DOMAIN res.dict
                 /\ res.dict[k] = received[LastOf(Suppliers(k))].body.dict[k]
           /\ ResultData(res) = ConcatData(received)

\* note came with the first chunk only, total with the second and the third
C3_Witness ==
    /\ pc = "returned"
    /\ Len(received) = 3
    /\ received[1].body = BodyDict([data |-> <<r1>>, note |-> "a"])
    /\ received[2].body = BodyDict([data |-> <<r2, r1>>, total |-> "a"])
    /\ received[3].body = BodyDict([data |-> <<r1>>, total |-> "b"])
    /\ outcome.value = BodyDict([data |-> <<r1, r2, r1, r1>>, note |-> "a", total |-> "b"])

\* C4 - Record order: at every point the accumulated sequence is the
\* concatenation, in chunk order, of the payloads of the chunks completed so
\* far, each in the order the upstream returned it; nothing is re-sorted,
\* dropped or de-duplicated, so the returned data has as many records as the
\* payloads together.
C4_RecordOrder ==
    /\ all_data = ConcatData(received)
    /\ Len(all_data) = SumLen(received)
    /\ pc = "returned" => /\ ResultData(outcome.value) = ConcatData(received)
                          /\ Len(ResultData(outcome.value)) = SumLen(received)

\* a record returned by two adjacent chunks, the first payload not in sorted order
C4_Witness ==
    /\ pc = "returned"
    /\ Len(received) = 2
    /\ DataOf(received[1].body) = <<r2, r1>>
    /\ DataOf(received[2].body) = <<r1>>
    /\ ResultData(outcome.value) = <<r2, r1, r1>>

\* the limit a call resolves to
ExpectedLimit ==
    IF args.custom_limit.given THEN args.custom_limit.value
    ELSE IF args.endpoint = "daily-ohlcv" THEN 100 ELSE 1000

\* C5 - Limit override: every request handed to _request carries the resolved
\* limit (custom_limit, or the endpoint's table entry), whatever limit the
\* caller put into params, and so the same limit for every chunk of a call.
C5_LimitOverride ==
    \A i \in 1..Len(sent) :
        /\ "limit" \in DOMAIN sent[i].params
        /\ sent[i].params["limit"] = ExpectedLimit
        /\ sent[i].params["limit"] = sent[1].params["limit"]

\* the caller asked for limit 5 on daily-ohlcv; two chunks were requested
C5_Witness ==
    /\ Len(sent) >= 2
    /\ args.params.given
    /\ "limit" \in DOMAIN args.params.dict
    /\ args.params.dict["limit"] # ExpectedLimit
    /\ args.endpoint = "daily-ohlcv"
    /\ ~args.custom_limit.given

\* C6 - Page stripping: every request handed to _request has page = 0; the
\* caller's page value is never forwarded.
C6_PageStripped ==
    \A i \in 1..Len(sent) :
        /\ "page" \in DOMAIN sent[i].params
        /\ sent[i].params["page"] = 0

\* the caller passed page = 3; two chunks were requested
C6_Witness ==
    /\ Len(sent) >= 2
    /\ args.params.given
    /\ "page" \in DOMAIN args.params.dict
    /\ args.params.dict["page"] = 3

\* C7 - Sequential ordering: requests are issued one at a time in window
\* order, one per window and carrying that window's bounds; request i + 1 is
\* issued only after response i has been merged, and two requests of a call are
\* never outstanding together.
C7_Sequential ==
    /\ outstanding \in {0, 1}
    /\ Len(wire) <= Len(sent)
    /\ Len(sent) <= Len(date_chunks)
    /\ pc = "waiting" => outstanding = 1 /\ Len(sent) = idx + 1
    /\ pc \in {"returned", "raised"} => outstanding = 0
    /\ pc = "raised" => Len(sent) = idx + 1
    /\ pc = "returned" => Len(sent) = idx /\ idx = Len(date_chunks)
    /\ idx = Len(SelectSeq(received, LAMBDA r : r.ok))
    /\ \A i \in 1..Len(sent) :
          /\ GetDate(sent[i].params, "startDate") = date_chunks[i][1]
          /\ GetDate(sent[i].params, "endDate") = date_chunks[i][2]

\* the third request is out while two responses have been merged
C7_Witness ==
    /\ pc = "waiting"
    /\ Len(sent) = 3
    /\ idx = 2
    /\ date_chunks[1] # date_chunks[2]
    /\ date_chunks[2] # date_chunks[3]

\* every chunk answered with a mapping holding one record and a total
OneRecordAndTotal ==
    \A i \in 1..Len(received) :
        /\ received[i].ok
        /\ received[i].body.isdict
        /\ DOMAIN received[i].body.dict = {"data", "total"}
        /\ Len(received[i].body.dict["data"]) = 1

\* C8 - End-to-end request count: a successful call whose dates are D days
\* apart issues 1 request when D <= max_days and ceil(D / max_days) requests
\* otherwise; when every chunk returns one record and a total, the result has
\* one record per request and the total of the last chunk.
C8_RequestCount ==
    pc = "returned"
    => /\ (Parseable(CallerStart) /\ Parseable(CallerEnd))
          => LET D == Strptime(CallerEnd) - Strptime(CallerStart)
                 expected == IF D <= args.max_days THEN 1
                             ELSE CeilDiv(D, args.max_days)
             IN  Len(sent) = expected /\ Len(wire) = expected
       /\ OneRecordAndTotal
          => /\ outcome.value.isdict
             /\ Len(outcome.value.dict["data"]) = Len(sent)
             /\ outcome.value.dict["total"] = received[Len(received)].body.dict["total"]

\* 2023-01-01..2023-03-15 with max_days = 29: three requests, the totals differ
C8_Witness ==
    /\ pc = "returned"
    /\ CallerStart = Ymd(2023, 1, 1, TRUE)
    /\ CallerEnd = Ymd(2023, 3, 15, TRUE)
    /\ args.max_days = DefaultMaxDays
    /\ Len(sent) = 3
    /\ OneRecordAndTotal
    /\ received[2].body.dict["total"] # received[3].body.dict["total"]
    /\ outcome.value.dict["total"] = "b"

\* C9 - No-op at or below the threshold: for parseable dates with
\* end - start <= max_days (also end - start = max_days, and start = end) the
\* chunker returns the one window (start, end), the input pair unmodified.
C9_NoOpBelowThreshold ==
    (/\ chunker.pc = "returned"
     /\ Parseable(chunker.startDate)
     /\ Parseable(chunker.endDate)
     /\ Strptime(chunker.endDate) - Strptime(chunker.startDate) <= chunker.max_days)
    => chunker.result = << <<chunker.startDate, chunker.endDate>> >>

\* a range of exactly max_days days whose start is not zero-padded
C9_Witness ==
    /\ chunker.pc = "returned"
    /\ Parseable(chunker.startDate)
    /\ Parseable(chunker.endDate)
    /\ Strptime(chunker.endDate) - Strptime(chunker.startDate) = chunker.max_days
    /\ ~chunker.startDate.pad
    /\ chunker.result = << <<chunker.startDate, chunker.endDate>> >>

\* a date argument that is missing, empty or not a calendar date
Unusable(s) == ~Truthy(s) \/ ~Parseable(s)

\* C10 - Pass-through: when start or end is absent, empty or does not parse,
\* the chunker returns the one window (start, end) with both values unchanged,
\* and _paginated_request issues exactly one request, which carries the
\* caller's date entries verbatim.
C10_PassThrough ==
    /\ (chunker.pc = "returned"
        /\ (Unusable(chunker.startDate) \/ Unusable(chunker.endDate)))
       => chunker.result = << <<chunker.startDate, chunker.endDate>> >>
    /\ (pc \in {"waiting", "returned", "raised"}
        /\ (Unusable(CallerStart) \/ Unusable(CallerEnd)))
       => /\ Len(sent) = 1
          /\ \A k \in {"startDate", "endDate"} :
                /\ k \in DOMAIN sent[1].params <=> k \in DOMAIN args.params.dict
                /\ k \in DOMAIN sent[1].params
                   => sent[1].params[k] = args.params.dict[k]

\* a call with the end date 2024-02-30 returned after its one request
C10_Witness ==
    /\ pc = "returned"
    /\ CallerStart = Strftime(Base)
    /\ CallerEnd = Ymd(2024, 2, 30, TRUE)
    /\ Len(sent) = 1
    /\ sent[1].params["endDate"] = Ymd(2024, 2, 30, TRUE)

\* C11 - Result shape: after all chunks succeeded the call returns (a) the
\* combined metadata with data set to the accumulated sequence when some chunk
\* supplied a metadata key; otherwise (b) the mapping {data: accumulated
\* sequence} when that sequence is non-empty and its first element is a
\* mapping; otherwise (c) the bare accumulated sequence, empty or not.
C11_ResultShape ==
    pc = "returned"
    => LET res == outcome.value
           acc == ConcatData(received)
       IN  IF MetaKeysSeen # {}
           THEN /\ res.isdict
                /\ DOMAIN res.dict = MetaKeysSeen \cup {"data"}
                /\ res.dict["data"] = acc
                /\ \A k \in MetaKeysSeen :
                      res.dict[k] = received[LastOf(Suppliers(k))].body.dict[k]
           ELSE IF acc # <<>> /\ acc[1].isdict
           THEN res = BodyDict([data |-> acc])
           ELSE res = BodyList(acc)

\* two chunks without metadata, the first record a scalar: a bare sequence
\* comes back although its second element is a mapping
C11_Witness ==
    /\ pc = "returned"
    /\ Len(received) = 2
    /\ received[1].body = BodyList(<<s1>>)
    /\ received[2].body = BodyDict([data |-> <<r1>>])
    /\ outcome.value = BodyList(<<s1, r1>>)

\* the identifiers the limit table lists with 1000
ThousandEndpoints ==
    {"hourly-ohlcv", "trader-grades", "investor-grades", "market-metrics",
     "trader-indices", "trading-signals"}

\* C12 - Limit resolution: the effective limit is custom_limit whenever one
\* is provided (also 0); otherwise 100 for daily-ohlcv and 1000 for hourly-ohlcv,
\* trader-grades, investor-grades, market-metrics, trader-indices and
\* trading-signals; otherwise the default 1000 for an identifier that is not in
\* the table.  It is the limit written into params.
C12_LimitResolution ==
    pc \in {"waiting", "returned", "raised"}
    => /\ args.custom_limit.given => limit = args.custom_limit.value
       /\ (~args.custom_limit.given /\ args.endpoint = "daily-ohlcv") => limit = 100
       /\ (~args.custom_limit.given /\ args.endpoint \in ThousandEndpoints)
          => limit = 1000
       /\ (~args.custom_limit.given
           /\ args.endpoint \notin ThousandEndpoints \cup {"daily-ohlcv"})
          => limit = 1000
       /\ params["limit"] = limit

\* custom_limit = 0 on daily-ohlcv resolves to 0, not to the table's 100
C12_Witness ==
    /\ pc = "waiting"
    /\ args.custom_limit = Custom(0)
    /\ args.endpoint = "daily-ohlcv"
    /\ limit = 0
    /\ sent[1].params["limit"] = 0

\* C13 - One-sided or date-less request: when params has no startDate or no
\* endDate, or either is None or empty, _paginated_request does not call
\* _chunk_date_range and issues exactly one request, whose startDate / endDate
\* entries are the caller's: a missing one is not added, a supplied one is not
\* changed.
C13_OneSided ==
    (/\ pc \in {"waiting", "returned", "raised"}
     /\ (~Truthy(CallerStart) \/ ~Truthy(CallerEnd)))
    => /\ chunker = ChunkerIdle
       /\ date_chunks = << <<CallerStart, CallerEnd>> >>
       /\ Len(sent) = 1
       /\ Len(wire) <= 1
       /\ \A k \in {"startDate", "endDate"} :
             IF args.params.given /\ k \in DOMAIN args.params.dict
             THEN /\ k \in DOMAIN sent[1].params
                  /\ sent[1].params[k] = args.params.dict[k]
             ELSE k \notin DOMAIN sent[1].params

\* a call with an end date and no startDate entry returned after one request
\* that has no startDate entry either
C13_Witness ==
    /\ pc = "returned"
    /\ args.params.given
    /\ "startDate" \notin DOMAIN args.params.dict
    /\ CallerEnd = Strftime(Base)
    /\ chunker = ChunkerIdle
    /\ Len(wire) = 1
    /\ DOMAIN wire[1].query = {"endDate", "limit", "page"}

\* the keys an iteration writes into its copy of params
ChunkKeys == {"startDate", "endDate", "limit", "page"}

\* the caller's params as they were passed ({} for None)
CallerDict == IF args.params.given THEN args.params.dict ELSE EmptyDict

\* C14 - Per-chunk parameter isolation: the parameters of every chunk's
\* request are a copy of the caller's params in which only startDate, endDate,
\* limit and page are written: every other entry of the caller is in every
\* request unchanged and no other key is added; the bounds written for one chunk
\* are in no other chunk's request and never in the caller's params, whose
\* startDate / endDate stay as passed.
C14_Isolation ==
    pc \in {"waiting", "returned", "raised"}
    => /\ \A i \in 1..Len(sent) :
             /\ DOMAIN sent[i].params \subseteq DOMAIN CallerDict \cup ChunkKeys
             /\ \A k \in DOMAIN CallerDict \ ChunkKeys :
                   /\ k \in DOMAIN sent[i].params
                   /\ sent[i].params[k] = CallerDict[k]
             /\ sent[i].params = ChunkParams(Normalise(CallerDict, limit),
                                             date_chunks[i], limit)
       /\ \A k \in {"startDate", "endDate"} :
             /\ k \in DOMAIN params <=> k \in DOMAIN CallerDict
             /\ k \in DOMAIN params => params[k] = CallerDict[k]
       /\ params = Normalise(CallerDict, limit)

\* three chunks requested for a caller who passed a symbol: the second and
\* third request start later than the caller's startDate, which is still in params
C14_Witness ==
    /\ pc = "returned"
    /\ Len(sent) = 3
    /\ "symbol" \in DOMAIN CallerDict
    /\ \A i \in 1..3 : sent[i].params["symbol"] = Btc
    /\ sent[2].params["startDate"] # CallerStart
    /\ sent[3].params["startDate"] # sent[2].params["startDate"]
    /\ sent[1].params["endDate"] # CallerEnd
    /\ params["startDate"] = CallerStart
    /\ params["endDate"] = CallerEnd

\* the direct call of _request has ended
RequestEnded == req.pc \in {"returned", "raised"}

\* C15 - Request failure without retry: _request raises for every transport
\* error and for every response with a status >= 400, makes one HTTP attempt per
\* call and never a second one, and the exception it raises carries the response
\* (status and body) when there is one; it returns the parsed JSON body only for
\* a status below 400.
C15_NoRetry ==
    /\ Len(wire) <= 1
    /\ Len(replies) <= Len(wire)
    /\ (RequestEnded /\ req.method \in {"get", "GET", "post", "POST"})
       => /\ Len(wire) = 1
          /\ Len(replies) = 1
          /\ outstanding = 0
          /\ LET r == replies[1]
                 e == req.result.exc
             IN  /\ (r.kind = "transport" \/ r.status >= 400)
                    => req.pc = "raised" /\ ~req.result.ok /\ e # NoExc
                 /\ r.kind = "transport" => ~e.has_response
                 /\ (r.kind # "transport" /\ r.status >= 400)
                    => /\ e.has_response
                       /\ e.response = r
                       /\ e.status = r.status
                 /\ req.pc = "returned"
                    => /\ r.kind = "http"
                       /\ r.status < 400
                       /\ req.result = Gave(r.body)

\* a response with status 400 ended the call with an HTTPError that carries it
C15_Witness ==
    /\ req.pc = "raised"
    /\ Len(wire) = 1
    /\ replies = << HttpReply(400, BodyDict([detail |-> "a"])) >>
    /\ req.result.exc.type = "HTTPError"
    /\ req.result.exc.response.status = 400
    /\ req.result.exc.response.body = BodyDict([detail |-> "a"])

\* C16 - Method dispatch: for GET in either case _request hands params to
\* the HTTP layer as the query string and sets no content-type header; for POST
\* it hands json_data as the JSON payload and sets content-type:
\* application/json.
C16_Dispatch ==
    (req.pc \in {"waiting", "returned", "raised"}
     /\ req.method \in {"get", "GET", "post", "POST"})
    => /\ Len(wire) = 1
       /\ wire[1].endpoint = req.endpoint
       /\ req.method \in {"get", "GET"}
          => /\ wire[1].verb = "GET"
             /\ wire[1].query = (IF req.params.given THEN req.params.dict
                                                      ELSE EmptyDict)
             /\ ~wire[1].content_type
             /\ ~wire[1].has_json
       /\ req.method \in {"post", "POST"}
          => /\ wire[1].verb = "POST"
             /\ wire[1].has_json = req.json_data.given
             /\ wire[1].json = req.json_data.body
             /\ wire[1].content_type

\* an upper-case GET with two params went out as a query, without content-type,
\* although json_data was passed too
C16_Witness ==
    /\ req.pc = "waiting"
    /\ req.method = "GET"
    /\ req.params = Given([symbol |-> Btc, limit |-> 5])
    /\ req.json_data.given
    /\ wire[1].query = [symbol |-> Btc, limit |-> 5]
    /\ ~wire[1].content_type
    /\ ~wire[1].has_json

\* C20 - Tool-level error containment: when the request of the tool raises,
\* _run returns a string instead of propagating: one that starts with
\* `API Error:` when the exception has a response attribute and with `Error:`
\* otherwise; _handle_error never raises, also for a response that is None or
\* whose body is not JSON.
C20_Containment ==
    /\ tool.output.kind # "propagated"
    /\ (tool.pc = "done" /\ Len(replies) = 1)
       => LET r == replies[1]
          IN  (r.kind # "http" \/ r.status >= 400)
              => /\ tool.caught # NoExc
                 /\ tool.output.kind = "text"
                 /\ tool.caught.has_attr => tool.output.prefix = "API Error:"
                 /\ ~tool.caught.has_attr => tool.output.prefix = "Error:"
    /\ (tool.pc = "done" /\ tool.caught # NoExc)
       => /\ tool.output.kind = "text"
          /\ tool.output.prefix \in {"API Error:", "Error:"}

\* the request failed without any response (error.response is None): the run
\* ended with an `API Error:` string
C20_Witness ==
    /\ tool.pc = "done"
    /\ replies = << TransportFailure >>
    /\ tool.caught = TransportError
    /\ tool.caught.has_attr
    /\ ~tool.caught.has_response
    /\ tool.output = Text("API Error:", "str(error)")

\* C18 - DateWindow well-formedness (refuted): every window returned by
\* _chunk_date_range whose bounds are calendar dates has start <= end, for every
\* pair of parseable inputs.  The code returns the pair (start, end) as it is
\* when end lies before start.
C18_WellFormed ==
    (/\ chunker.pc = "returned"
     /\ Parseable(chunker.startDate)
     /\ Parseable(chunker.endDate))
    => \A i \in 1..Len(chunker.result) :
          LET w == chunker.result[i]
          IN  (Parseable(w[1]) /\ Parseable(w[2])) => Strptime(w[1]) <= Strptime(w[2])

\* C19 - Absent or empty values are never transmitted (refuted): no request
\* handed to the HTTP layer has a parameter whose value is None or the empty
\* string.  Of the values the code hands over only None is dropped (by requests);
\* an empty startDate, endDate or symbol goes out as it is.
C19_NoEmptyValues ==
    \A i \in 1..Len(wire) :
        LET q == Transmitted(wire[i].query)
        IN  \A k \in DOMAIN q \ {"limit", "page"} : Truthy(q[k])

\* what an activation with arguments a has done after the replies rs when it
\* runs alone
RECURSIVE Solo(_, _)
Solo(a, rs) ==
    IF rs = <<>>
    THEN CallStep(<< Fresh(a) >>, 1)
    ELSE RespondStep(<< Solo(a, SubSeq(rs, 1, Len(rs) - 1)) >>, 1, rs[Len(rs)])

\* the one activation of Spec does what Solo computes
SoloAgrees ==
    pc \in {"waiting", "returned", "raised"}
    => LET solo == Solo(args, replies)
       IN  /\ solo.pc = pc
           /\ solo.sent = sent
           /\ solo.received = received
           /\ solo.outcome = outcome
           /\ solo.params = params
           /\ solo.all_data = all_data
           /\ solo.combined_meta = combined_meta

\* C17 - No shared mutable state across calls: when the steps of two
\* invocations with their own params dicts are interleaved in any order, each
\* has issued the requests and reached the result (or the state) it reaches after
\* the same replies when it runs alone, and the endpoint limit table of either
\* call still has its initial entries.
C17_NoInterference ==
    \A i \in DOMAIN acts :
        acts[i].pc # "call"
        => /\ acts[i] = Solo(acts[i].args, acts[i].replies)
           /\ acts[i].sent = Solo(acts[i].args, acts[i].replies).sent
           /\ acts[i].outcome = Solo(acts[i].args, acts[i].replies).outcome
           /\ acts[i].endpoint_limits = EndpointLimits

\* both calls are in flight with their second request out, for different
\* endpoints, each holding the records of its own first chunk
C17_Witness ==
    /\ acts # NoActs
    /\ acts[1].pc = "waiting"
    /\ acts[2].pc = "waiting"
    /\ Len(acts[1].sent) = 2
    /\ Len(acts[2].sent) = 2
    /\ acts[1].args.endpoint # acts[2].args.endpoint
    /\ acts[1].all_data # <<>>
    /\ acts[2].all_data # <<>>
    /\ acts[1].sent[2].params["limit"] # acts[2].sent[2].params["limit"]

\* C21 - Custom base URL (refuted): when the client is constructed with a
\* base_url, every request issued through its base endpoint goes to a URL built
\* from that base URL, and the default BASE_URL is used only when none is given.
\* BaseEndpoint.__init__ copies the class attribute BASE_URL, so the argument
\* never reaches the URL.
C21_CustomBaseUrl ==
    \A i \in 1..Len(urls) :
        /\ urls[i].base = client.base_url
        /\ (client.base_url_arg.given /\ client.base_url_arg.url # "")
           => urls[i].base = client.base_url_arg.url
        /\ urls[i].base = BASE_URL
           => (~client.base_url_arg.given \/ client.base_url_arg.url \in {"", BASE_URL})

\* the range of the chunker's arguments is cut: both parse and lie more than
\* max_days days apart
ChunkingOccurs ==
    /\ chunker.pc = "returned"
    /\ Parseable(chunker.startDate)
    /\ Parseable(chunker.endDate)
    /\ Strptime(chunker.endDate) - Strptime(chunker.startDate) > chunker.max_days

\* C22 - Window sizes when chunking occurs: for parseable dates more than
\* max_days apart (max_days >= 1) every returned window but the last spans
\* exactly max_days days and the last spans between 1 and max_days days; no
\* window of length zero closes the list, also when end - start is a multiple of
\* max_days.
C22_WindowSizes ==
    ChunkingOccurs
    => LET w == chunker.result
           n == Len(w)
       IN  /\ n >= 2
           /\ \A i \in 1..(n - 1) : Days(w[i]) = chunker.max_days
           /\ Days(w[n]) >= 1
           /\ Days(w[n]) <= chunker.max_days

\* a range of a multiple of max_days >= 2 days: the last window is a full one
C22_Witness ==
    /\ ChunkingOccurs
    /\ chunker.max_days >= 2
    /\ (Strptime(chunker.endDate) - Strptime(chunker.startDate)) % chunker.max_days = 0
    /\ Len(chunker.result) >= 3
    /\ Days(chunker.result[Len(chunker.result)]) = chunker.max_days

\* the records a response is expected to contribute
ExpectedRecords(body) ==
    IF ~body.isdict THEN body.list
    ELSE IF "data" \in DOMAIN body.dict THEN body.dict["data"]
    ELSE <<>>

RECURSIVE ExpectedData(_)
ExpectedData(rs) ==
    IF rs = <<>>
    THEN <<>>
    ELSE LET n == Len(rs)
         IN  ExpectedData(SubSeq(rs, 1, n - 1))
                 \o (IF rs[n].ok THEN ExpectedRecords(rs[n].body) ELSE <<>>)

\* the classification of every response merged so far, apart from the result
\* for mappings without data
Classified ==
    /\ all_data = ExpectedData(received)
    /\ DOMAIN combined_meta = MetaKeysSeen
    /\ "data" \notin DOMAIN combined_meta
    /\ \A i \in 1..Len(received) :
          (received[i].ok /\ received[i].body.isdict)
          => (DOMAIN received[i].body.dict \ {"data"}) \subseteq DOMAIN combined_meta
    /\ (\A i \in 1..Len(received) : received[i].ok => ~received[i].body.isdict)
       => combined_meta = EmptyDict

\* the indices of the mapping responses without a data key
WithoutData ==
    { i \in 1..Len(received) :
        /\ received[i].ok
        /\ received[i].body.isdict
        /\ "data" \notin DOMAIN received[i].body.dict }

\* C23 - Per-chunk response classification (amended): a mapping response
\* contributes its data field as records and its other keys to the combined
\* metadata, a non-mapping response is taken whole as records and contributes no
\* metadata, the combined metadata never has a data key, and a mapping without
\* data contributes no records; when such a mapping has at least one key, the
\* final result is a mapping with a data key.
C23_Classification ==
    /\ Classified
    /\ pc = "returned"
       => \A i \in WithoutData :
             DOMAIN received[i].body.dict # {}
             => outcome.value.isdict /\ "data" \in DOMAIN outcome.value.dict

\* C23 as stated: the same, with a data key in the final result after every
\* mapping response without data, also the empty mapping {}
C23_AsStated ==
    /\ Classified
    /\ pc = "returned"
       => \A i \in WithoutData :
             outcome.value.isdict /\ "data" \in DOMAIN outcome.value.dict

\* a mapping without data and a bare list: the list's record and the
\* mapping's note are both in the result
C23_Witness ==
    /\ pc = "returned"
    /\ Len(received) = 2
    /\ received[1].body = BodyDict([note |-> "a"])
    /\ received[2].body = BodyList(<<r1>>)
    /\ outcome.value = BodyDict([data |-> <<r1>>, note |-> "a"])

\* the number of chunks whose response has been merged
Completed == Len(SelectSeq(received, LAMBDA r : r.ok))

\* C24 - Progress accounting: the progress bar of a call starts at 0 with
\* total equal to the number of windows, advances by one after each merged
\* response, always equals the number of chunks completed, never exceeds the
\* total, equals the total on return and k - 1 when the request of chunk k fails.
C24_Progress ==
    pc \in {"waiting", "returned", "raised"}
    => /\ pbar.total = Len(date_chunks)
       /\ pbar.n = Completed
       /\ pbar.n = idx
       /\ pbar.n <= pbar.total
       /\ Len(received) = 0 => pbar.n = 0
       /\ pc = "waiting" => pbar.n = Len(sent) - 1
       /\ pc = "returned" => pbar.n = pbar.total
       /\ pc = "raised" => /\ pbar.n = Len(sent) - 1
                           /\ pbar.n = Len(received) - 1
                           /\ pbar.n < pbar.total

\* the request of the third of three chunks failed: the bar stands at 2 of 3
C24_Witness ==
    /\ pc = "raised"
    /\ Len(sent) = 3
    /\ pbar = [total |-> 3, n |-> 2]
    /\ ~received[3].ok

\* C25 - Effect on the caller's params: after a return and after a failure
\* the mapping the caller passed contains limit, equal to the resolved limit,
\* and no page key; every other entry, startDate and endDate included, is as the
\* caller supplied it, and neither chunk bounds nor page = 0 were written into it.
C25_CallerParams ==
    (pc \in {"returned", "raised"} /\ args.params.given)
    => /\ DOMAIN params = (DOMAIN args.params.dict \ {"page"}) \cup {"limit"}
       /\ params["limit"] = ExpectedLimit
       /\ "page" \notin DOMAIN params
       /\ \A k \in DOMAIN args.params.dict \ {"limit", "page"} :
             params[k] = args.params.dict[k]

\* the caller passed limit 5, page 3 and a symbol; the second of three chunks
\* failed and the mapping has the resolved limit, no page and the caller's dates
C25_Witness ==
    /\ pc = "raised"
    /\ Len(sent) = 2
    /\ Len(date_chunks) = 3
    /\ args.params.given
    /\ {"limit", "page", "symbol"} \subseteq DOMAIN args.params.dict
    /\ args.endpoint = "daily-ohlcv"
    /\ ~args.custom_limit.given
    /\ params = [symbol |-> Btc, limit |-> 100, startDate |-> CallerStart,
                 endDate |-> CallerEnd]
    /\ sent[2].params["startDate"] # CallerStart


\* C26: for parseable dates and max_days >= 1 the chunking loop terminates,
\* chunk_start strictly increasing at every iteration and never passing end;
\* and _paginated_request ends, by return or by raising, when every request
\* issued returns or fails
C26_Termination ==
    /\ [][(loop.pc = "loop" /\ loop'.pc = "loop" /\ loop.max_days >= 1)
            => (loop'.chunk_start > loop.chunk_start
                /\ loop'.chunk_start <= loop.end)]_vars
    /\ <>(/\ loop.max_days >= 1 => loop.pc \in {"idle", "returned"}
          /\ pc \in {"idle", "returned", "raised"})

\* the loop has run three iterations and returned
C26_Witness ==
    /\ loop.pc = "returned"
    /\ loop.max_days >= 1
    /\ loop.windows >= 3
    /\ loop.chunk_start = loop.end


\* C27: when _paginated_request is called with method POST, every chunk's
\* parameters reach _request as params only: each outbound request is a POST
\* with no JSON body and no query parameter, although the chunk's parameter
\* set is not empty, and all requests of the call are identical
C27_PostSendsNothing ==
    Lower(args.method) = "post" =>
        /\ Len(wire) = Len(sent)
        /\ \A i \in 1..Len(wire) :
              /\ wire[i].verb = "POST"
              /\ ~wire[i].has_json
              /\ wire[i].json = NoJson.body
              /\ DOMAIN Transmitted(wire[i].query) = {}
              /\ DOMAIN sent[i].params # {}
              /\ wire[i] = wire[1]
              /\ urls[i] = urls[1]

\* a POST over two windows: the second request equals the first although the
\* parameter sets handed to _request differ
C27_Witness ==
    /\ Lower(args.method) = "post"
    /\ Len(wire) >= 2
    /\ sent[1].params # sent[2].params
    /\ wire[1] = wire[2]


\* C28: for a method other than GET or POST, compared case-insensitively,
\* _request raises before any HTTP call; through _paginated_request the call
\* aborts on the first chunk: one call of _request, no HTTP request, a
\* ValueError raised and no result returned
C28_UnsupportedMethod ==
    /\ (pc # "idle" /\ pc # "call" /\ Lower(args.method) \notin {"get", "post"}) =>
          /\ pc = "raised"
          /\ Len(sent) = 1
          /\ wire = <<>>
          /\ urls = <<>>
          /\ outstanding = 0
          /\ received = << Threw(UnsupportedMethod) >>
          /\ outcome = Raises(UnsupportedMethod)
          /\ all_data = <<>>
          /\ pbar.n = 0
    /\ (pc # "idle" /\ pc # "call" /\ Lower(args.method) \in {"get", "post"}) =>
          /\ Len(wire) = Len(sent)
          /\ Len(wire) >= 1

\* a PUT over a range of several windows has raised
C28_Witness ==
    /\ args.method = "put"
    /\ pc = "raised"
    /\ Len(date_chunks) >= 2
    /\ outcome.exc.type = "ValueError"

\* the calls of _request for the windows `chunks` that the arguments of the
\* call determine: one per window, in order, each with the caller's other
\* entries, the window's dates, the resolved limit and page 0
RequestsOver(chunks) ==
    LET lim == ResolveLimit(args.endpoint, args.custom_limit)
        p == Normalise(CallerDict, lim)
    IN  [i \in 1..Len(chunks) |->
            [method |-> args.method, endpoint |-> args.endpoint,
             params |-> ChunkParams(p, chunks[i], lim)]]

\* every request of the call so far has succeeded
AllSucceeded == \A i \in 1..Len(replies) : ~Fails(replies[i])

\* C29: the requests issued do not depend on what the responses contain.  The
\* list of windows is the one the arguments determine when the first request
\* goes out, and no later step changes it; in a run whose requests all succeed
\* the requests issued so far are the first ones, in order, of the sequence
\* that the arguments and that list determine (so two runs with the same
\* arguments issue identical sequences), one more than the responses merged
\* until the last window: no response adds a request, skips a chunk or changes
\* a parameter
C29_RequestsIndependent ==
    /\ []((pc = "waiting" /\ replies = <<>>)
             => date_chunks = DateChunks(CallerDict, args.max_days))
    /\ [][pc # "call" => date_chunks' = date_chunks]_vars
    /\ []((pc \in {"waiting", "returned"} /\ AllSucceeded)
             => \A expected \in {RequestsOver(date_chunks)} :
                   \A n \in {Min(Len(replies) + 1, Len(expected))} :
                       /\ sent = SubSeq(expected, 1, n)
                       /\ Len(wire) = n
                       /\ \A i \in 1..n :
                             wire[i] = WireRequest(sent[i].method, sent[i].endpoint,
                                                   sent[i].params)
                       /\ pc = "returned" <=> Len(replies) = Len(expected))

\* a call over three windows has returned after answers of different shapes,
\* among them a mapping without records and an empty array
C29_Witness ==
    /\ pc = "returned"
    /\ Len(sent) >= 3
    /\ AllSucceeded
    /\ replies[1].body = BodyDict([total |-> "a"])
    /\ replies[2].body = BodyList(<<>>)
    /\ replies[3].body = BodyDict([data |-> <<r2, r1>>, total |-> "b"])

\* C30: chunking is idempotent on its outputs: for parseable dates and
\* max_days N >= 1, every window (s, e) that _chunk_date_range(start, end, N)
\* returns is returned alone and unchanged by _chunk_date_range(s, e, N)
C30_Idempotent ==
    (/\ chunker.pc = "returned"
     /\ Parseable(chunker.startDate)
     /\ Parseable(chunker.endDate)
     /\ chunker.max_days >= 1)
    => \A i \in 1..Len(chunker.result) :
          LET w == chunker.result[i]
          IN  ChunkDateRange(w[1], w[2], chunker.max_days) = << w >>

\* a range split into several windows, the first of exactly max_days days and
\* the last shorter, from a start date written without padding
C30_Witness ==
    /\ chunker.pc = "returned"
    /\ Parseable(chunker.startDate)
    /\ Parseable(chunker.endDate)
    /\ ~chunker.startDate.pad
    /\ chunker.max_days >= 2
    /\ Len(chunker.result) >= 2
    /\ Days(chunker.result[1]) = chunker.max_days
    /\ Days(chunker.result[Len(chunker.result)]) < chunker.max_days

====
